---- MODULE Spec2Model ----
(***************************************************************************)
(* A model of PyTrakt's calendar builder (trakt/calendar.py) and of its    *)
(* sync module (trakt/sync.py): comment, get_search_results, search_by_id  *)
(* and the Scrobbler.                                                      *)
(*                                                                         *)
(* Three specifications share the variables:                               *)
(*   CalendarSpec  Calendar._build / MovieCalendar._build, one loop        *)
(*                 iteration per step, the sort on leaving the loop;       *)
(*   Spec          one Scrobbler object and one `with` scope over it;      *)
(*   SyncSpec      the module-level functions of trakt/sync.py.            *)
(* Dates and timestamps are integers (only their order matters), progress  *)
(* is an integer percentage, a comment body is its length.                 *)
(***************************************************************************)
EXTENDS Integers, Sequences, FiniteSets

VARIABLES
    \* ---- Calendar (trakt/calendar.py)
    kind,        \* "tv" (Calendar._build) or "movie" (MovieCalendar._build)
    build_pc,    \* "idle", "building", "done", or "raised" (the sort raised)
    calendar,    \* self._calendar
    rows,        \* response rows walked so far by the running _build
    unmatched,   \* of these, rows whose episode season matched no season
    \* ---- Scrobbler (trakt/sync.py)
    alive,       \* the Scrobbler has been constructed
    progress,    \* self.progress
    requests,    \* the posts issued by _post, in order: [uri, progress]
    scope,       \* "out", "in" (inside the with body), "left"
    raised,      \* the with body exited with an exception
    propagated,  \* the exception left the with statement
    op,          \* the operation that ran last on the Scrobbler
    initial,     \* the progress the Scrobbler was constructed with
    in_range,    \* every progress passed so far (constructor, update) was 0..100
    \* ---- module-level functions of trakt/sync.py
    call,        \* the last call and its arguments
    outcome,     \* what it returned or raised
    http         \* the requests it issued

calVars == <<kind, build_pc, calendar, rows, unmatched>>
scrVars == <<alive, progress, requests, scope, raised, propagated,
            op, initial, in_range>>
syncVars == <<call, outcome, http>>
vars == <<kind, build_pc, calendar, rows, unmatched,
          alive, progress, requests, scope, raised, propagated,
          op, initial, in_range,
          call, outcome, http>>

\* None: the value movie.get('released', None) yields for a row without a date.
\* It is no date, and ordering it against anything raises TypeError.
None == -1

(***************************************************************************)
(* Bounds and sample sets.                                                 *)
(***************************************************************************)
MaxRows == 3
MaxSeasons == 2
SeasonNumbers == {1, 2}
Dates == {1, 2}

(***************************************************************************)
(* Calendar._build, TV calendars.                                          *)
(***************************************************************************)
\* An episode a season already holds before the build (not a response row's).
Existing(d) == [airs_at |-> d, row |-> 0]

ExistingEpisodeLists ==
    {<<>>} \cup {<<Existing(d)>> : d \in Dates}
           \cup {<<Existing(1), Existing(2)>>}

Seasons == [season : SeasonNumbers, episodes : ExistingEpisodeLists]

\* show.seasons of a response row's show: any list of up to MaxSeasons seasons.
ShowSeasons == UNION {[1..n -> Seasons] : n \in 0..MaxSeasons}

\* episode = TVEpisode(show.title, season, number, airs_at=...), tagged with
\* the index of the response row it was built from.
TVEpisode(season, airs_at, row) == [season |-> season, airs_at |-> airs_at, row |-> row]

\* for season in show.seasons: if season.season == episode.season: ... break
\* The index of the first matching season, 0 when the loop falls through.
MatchIndex(seasons, n) ==
    IF \E i \in 1..Len(seasons) : seasons[i].season = n
    THEN CHOOSE i \in 1..Len(seasons) :
            /\ seasons[i].season = n
            /\ \A j \in 1..(i - 1) : seasons[j].season # n
    ELSE 0

\* show._seasons after the loop: [season] with season._episodes = [episode]
\* on a match, untouched otherwise.
Prune(seasons, episode) ==
    LET m == MatchIndex(seasons, episode.season)
    IN  IF m > 0
        THEN <<[season |-> seasons[m].season,
                episodes |-> <<[airs_at |-> episode.airs_at, row |-> episode.row]>>]>>
        ELSE seasons

\* if len(show._seasons) == 1: self._calendar.append(show)
Kept(seasons) == Len(seasons) = 1

\* A sort that is ascending but not stable: equal keys come out in reverse.
SortedTiesReversed(s, k) ==
    LET n == Len(s)
        Place(i) == Cardinality({j \in 1..n : k[j] < k[i]})
                    + Cardinality({j \in (i + 1)..n : k[j] = k[i]}) + 1
    IN  [p \in 1..n |-> s[CHOOSE i \in 1..n : Place(i) = p]]

\* The stable ascending sort of s by the keys k (k[i] is the key of s[i]):
\* Python's sorted(). Place(i) is where s[i] lands.
Sorted(s, k) ==
    LET n == Len(s)
        Place(i) == Cardinality({j \in 1..n : k[j] < k[i]})
                    + Cardinality({j \in 1..(i - 1) : k[j] = k[i]}) + 1
    IN  [p \in 1..n |-> s[CHOOSE i \in 1..n : Place(i) = p]]

\* key=lambda x: x.seasons[0].episodes[0].airs_at ; IndexError on no episode.
HasKey(show) == Len(show.seasons[1].episodes) >= 1
AirsAtKey(show) == show.seasons[1].episodes[1].airs_at

\* self._calendar = []
BuildStart ==
    /\ build_pc \in {"idle", "done", "raised"}
    /\ build_pc' = "building"
    /\ calendar' = <<>>
    /\ rows' = 0
    /\ unmatched' = 0
    /\ UNCHANGED <<kind>>
    /\ UNCHANGED scrVars /\ UNCHANGED syncVars

\* One iteration of `for item in data` of Calendar._build.
BuildRow ==
    /\ kind = "tv"
    /\ build_pc = "building"
    /\ rows < MaxRows
    /\ \E seasons \in ShowSeasons, s \in SeasonNumbers, d \in Dates :
         LET episode == TVEpisode(s, d, rows + 1)
             pruned == Prune(seasons, episode)
         IN  /\ calendar' = IF Kept(pruned)
                            THEN Append(calendar, [row |-> rows + 1, seasons |-> pruned])
                            ELSE calendar
             /\ unmatched' = IF MatchIndex(seasons, s) = 0
                             THEN unmatched + 1 ELSE unmatched
    /\ rows' = rows + 1
    /\ UNCHANGED <<kind, build_pc>>
    /\ UNCHANGED scrVars /\ UNCHANGED syncVars

\* The loop is over: self._calendar = sorted(self._calendar, key=...)
BuildSort ==
    /\ kind = "tv"
    /\ build_pc = "building"
    /\ IF \A i \in 1..Len(calendar) : HasKey(calendar[i])
       THEN /\ calendar' = Sorted(calendar,
                                  [i \in 1..Len(calendar) |-> AirsAtKey(calendar[i])])
            /\ build_pc' = "done"
       ELSE /\ calendar' = calendar
            /\ build_pc' = "raised"
    /\ UNCHANGED <<kind, rows, unmatched>>
    /\ UNCHANGED scrVars /\ UNCHANGED syncVars

(***************************************************************************)
(* MovieCalendar._build.                                                   *)
(***************************************************************************)
\* released = movie.get('released', None)
Released == Dates \cup {None}

\* Movie(released=released, **m_data), tagged with its response row.
Movie(released, row) == [row |-> row, released |-> released]

\* One iteration of `for movie in data` of MovieCalendar._build.
MovieRow ==
    /\ kind = "movie"
    /\ build_pc = "building"
    /\ rows < MaxRows
    /\ \E r \in Released : calendar' = Append(calendar, Movie(r, rows + 1))
    /\ rows' = rows + 1
    /\ UNCHANGED <<kind, build_pc, unmatched>>
    /\ UNCHANGED scrVars /\ UNCHANGED syncVars

\* sorted(..., key=lambda x: x.released): with two or more movies every key
\* is compared, and None compares with nothing (TypeError).
Comparable(s) == Len(s) < 2 \/ \A i \in 1..Len(s) : s[i].released # None

MovieSort ==
    /\ kind = "movie"
    /\ build_pc = "building"
    /\ IF Comparable(calendar)
       THEN /\ calendar' = IF Len(calendar) < 2 THEN calendar
                           ELSE Sorted(calendar,
                                       [i \in 1..Len(calendar) |-> calendar[i].released])
            /\ build_pc' = "done"
       ELSE /\ calendar' = calendar
            /\ build_pc' = "raised"
    /\ UNCHANGED <<kind, rows, unmatched>>
    /\ UNCHANGED scrVars /\ UNCHANGED syncVars

ScrobblerIdle ==
    /\ alive = FALSE
    /\ progress = 0
    /\ requests = <<>>
    /\ scope = "out"
    /\ raised = FALSE
    /\ propagated = FALSE
    /\ op = "none"
    /\ initial = 0
    /\ in_range = TRUE

SyncIdle ==
    /\ call = [fn |-> "none"]
    /\ outcome = <<>>
    /\ http = <<>>

CalendarIdle ==
    /\ build_pc = "idle"
    /\ calendar = <<>>
    /\ rows = 0
    /\ unmatched = 0

\* Calendar.__init__: self._calendar = [] ; the class fixes which _build runs.
CalendarInit ==
    /\ kind \in {"tv", "movie"}
    /\ CalendarIdle
    /\ ScrobblerIdle
    /\ SyncIdle

CalendarNext == BuildStart \/ BuildRow \/ BuildSort \/ MovieRow \/ MovieSort

CalendarSpec == CalendarInit /\ [][CalendarNext]_vars

(***************************************************************************)
(* Scrobbler (trakt/sync.py).                                              *)
(***************************************************************************)
MaxRequests == 4
FinishBelow == 80
FinishedProgress == 100

\* Progress values a caller may pass: nothing in the code restricts them.
ProgressValues == {-5, 0, 50, 79, 80, 85, 150}

\* _post: yield uri, dict(progress=self.progress, ...)
Post(uri, p) == [uri |-> uri, progress |-> p]

Issue(uri, p) == requests' = Append(requests, Post(uri, p))

\* A constructor that never starts.
NoInitialRequests(p) == <<>>

\* __init__: if self.progress > 0: self.start()
InitialRequests(p) == IF p > 0 THEN <<Post("scrobble/start", p)>> ELSE <<>>

\* finish with <= for <.
FinishProgressAtMost(p) == IF p <= FinishBelow THEN FinishedProgress ELSE p

\* finish with += for =.
FinishProgressAdded(p) == IF p < FinishBelow THEN p + FinishedProgress ELSE p

\* finish: if self.progress < 80.0: self.progress = 100.0
FinishProgress(p) == IF p < FinishBelow THEN FinishedProgress ELSE p

\* An __exit__ that returns a true value.
ExitSwallows == TRUE

\* What __exit__ returns, as the with statement reads it: it returns None,
\* which is false, so a pending exception is not suppressed.
ExitSuppresses == FALSE

Tracks(p) == in_range' = (in_range /\ p \in 0..100)

\* Scrobbler(media, progress, app_version, app_date)
New ==
    /\ ~alive
    /\ \E p \in ProgressValues :
         /\ progress' = p
         /\ initial' = p
         /\ Tracks(p)
         /\ requests' = requests \o InitialRequests(p)
    /\ alive' = TRUE
    /\ op' = "new"
    /\ UNCHANGED <<scope, raised, propagated>>
    /\ UNCHANGED calVars /\ UNCHANGED syncVars

Callable == alive /\ Len(requests) < MaxRequests

Start ==
    /\ Callable
    /\ Issue("scrobble/start", progress)
    /\ op' = "start"
    /\ UNCHANGED <<alive, progress, scope, raised, propagated, initial, in_range>>
    /\ UNCHANGED calVars /\ UNCHANGED syncVars

Pause ==
    /\ Callable
    /\ Issue("scrobble/pause", progress)
    /\ op' = "pause"
    /\ UNCHANGED <<alive, progress, scope, raised, propagated, initial, in_range>>
    /\ UNCHANGED calVars /\ UNCHANGED syncVars

Stop ==
    /\ Callable
    /\ Issue("scrobble/stop", progress)
    /\ op' = "stop"
    /\ UNCHANGED <<alive, progress, scope, raised, propagated, initial, in_range>>
    /\ UNCHANGED calVars /\ UNCHANGED syncVars

Finish ==
    /\ Callable
    /\ progress' = FinishProgress(progress)
    /\ Issue("scrobble/stop", progress')
    /\ op' = "finish"
    /\ UNCHANGED <<alive, scope, raised, propagated, initial, in_range>>
    /\ UNCHANGED calVars /\ UNCHANGED syncVars

Update ==
    /\ Callable
    /\ \E p \in ProgressValues :
         /\ progress' = p
         /\ Tracks(p)
         /\ Issue("scrobble/start", p)
    /\ op' = "update"
    /\ UNCHANGED <<alive, scope, raised, propagated, initial>>
    /\ UNCHANGED calVars /\ UNCHANGED syncVars

\* with scrobbler: -> __enter__: self.start(); return self
Enter ==
    /\ Callable
    /\ scope = "out"
    /\ scope' = "in"
    /\ Issue("scrobble/start", progress)
    /\ op' = "enter"
    /\ UNCHANGED <<alive, progress, raised, propagated, initial, in_range>>
    /\ UNCHANGED calVars /\ UNCHANGED syncVars

\* The with body ends, normally or with an exception, and the with statement
\* calls __exit__(exc_type, exc_val, exc_tb): self.finish()
Exit ==
    /\ Callable
    /\ scope = "in"
    /\ scope' = "left"
    /\ \E exc \in BOOLEAN :
         /\ raised' = exc
         /\ propagated' = (exc /\ ~ExitSuppresses)
    /\ progress' = FinishProgress(progress)
    /\ Issue("scrobble/stop", progress')
    /\ op' = "exit"
    /\ UNCHANGED <<alive, initial, in_range>>
    /\ UNCHANGED calVars /\ UNCHANGED syncVars

Init ==
    /\ kind = "tv"
    /\ CalendarIdle
    /\ ScrobblerIdle
    /\ SyncIdle

Next == New \/ Start \/ Pause \/ Stop \/ Finish \/ Update \/ Enter \/ Exit

Spec == Init /\ [][Next]_vars

(***************************************************************************)
(* The module-level functions of trakt/sync.py. Each call starts afresh:   *)
(* http holds the requests of the last call only. The @get and @post       *)
(* decorators run the function up to its first yield and send what it      *)
(* yields; a function that raises before yielding sends nothing. A         *)
(* behaviour is one call, made from the idle state.                        *)
(***************************************************************************)
MaxBodyLen == 202
MaxResults == 3
ReviewLength == 200

\* The promotion with >= for >.
ReviewFlagAtLeast(review, len) == IF ~review /\ len >= ReviewLength THEN TRUE ELSE review

\* if not review and len(comment_body) > 200: review = True
ReviewFlag(review, len) == IF ~review /\ len > ReviewLength THEN TRUE ELSE review

\* comment(media, comment_body, spoiler=False, review=False); the body is
\* modelled by its length.
Comment ==
    /\ call.fn = "none"
    /\ \E len \in 0..MaxBodyLen, spoiler \in BOOLEAN, review \in BOOLEAN :
         /\ call' = [fn |-> "comment", len |-> len, spoiler |-> spoiler,
                     review |-> review]
         /\ http' = <<[method |-> "POST", path |-> "comments", len |-> len,
                       spoiler |-> spoiler, review |-> ReviewFlag(review, len)]>>
    /\ outcome' = "posted"
    /\ UNCHANGED calVars /\ UNCHANGED scrVars

\* valids with its last element lost.
validsShort == {"trakt-movie", "trakt-show", "trakt-episode", "imdb", "tmdb", "tvdb"}

\* valids = ('trakt-movie', 'trakt-show', 'trakt-episode', 'imdb', 'tmdb',
\*           'tvdb', 'tvrage')
valids == {"trakt-movie", "trakt-show", "trakt-episode", "imdb", "tmdb",
           "tvdb", "tvrage"}

\* id_type arguments tried: the valid ones and some that are not.
IdTypes == {"trakt-movie", "trakt-show", "trakt-episode", "imdb", "tmdb",
            "tvdb", "tvrage", "bogus", "movie", "trakt", ""}

\* search_by_id(query, id_type='imdb'), up to its first yield.
SearchById ==
    /\ call.fn = "none"
    /\ \E id_type \in IdTypes :
         /\ call' = [fn |-> "search_by_id", id_type |-> id_type]
         /\ IF id_type \notin valids
            THEN /\ outcome' = "ValueError"
                 /\ http' = <<>>
            ELSE /\ outcome' = "results"
                 /\ http' = <<[method |-> "GET", path |-> "search?id=",
                               id_type |-> id_type]>>
    /\ UNCHANGED calVars /\ UNCHANGED scrVars

SearchTypes == {"movie", "show", "episode", "person"}

\* The type discriminants a response row may carry: Trakt also returns lists.
RowTypes == SearchTypes \cup {"list"}

\* A response row: its type, its score, and the nested fragment (by identity).
SearchRows == [type : RowTypes, score : {1, 2}, fragment : {1, 2}]

SearchResponses == UNION {[1..n -> SearchRows] : n \in 0..MaxResults}

\* SearchResult.media when nothing populates it (media=None).
NoMedia == [class |-> "None", fragment |-> 0]

\* The if/elif chain of get_search_results: the entity built from the row.
MediaOf(row) ==
    CASE row.type = "movie" -> [class |-> "Movie", fragment |-> row.fragment]
      [] row.type = "show" -> [class |-> "TVShow", fragment |-> row.fragment]
      [] row.type = "episode" -> [class |-> "TVEpisode", fragment |-> row.fragment]
      [] row.type = "person" -> [class |-> "Person", fragment |-> row.fragment]
      [] OTHER -> NoMedia

\* SearchResult(type, score, media=None), then result.media = ...
SearchResult(row) == [type |-> row.type, score |-> row.score, media |-> MediaOf(row)]

\* A walk that skips (continue) the rows of unrecognized type.
SearchResultsSkipping(data) ==
    LET Known(row) == row.type \in SearchTypes
        known == SelectSeq(data, Known)
    IN  [i \in 1..Len(known) |-> SearchResult(known[i])]

\* for media_item in data: ...; results.append(result)
SearchResults(data) == [i \in 1..Len(data) |-> SearchResult(data[i])]

\* if search_type is None: search_type = ['movie', 'show', 'episode', 'person']
SearchTypeArgs == {<<>>, <<"movie">>, <<"show", "episode">>}
TypesOf(search_type) ==
    IF search_type = <<>> THEN <<"movie", "show", "episode", "person">>
    ELSE search_type

\* get_search_results(query, search_type=None); <<>> stands for None.
GetSearchResults ==
    /\ call.fn = "none"
    /\ \E search_type \in SearchTypeArgs, data \in SearchResponses :
         /\ call' = [fn |-> "get_search_results", data |-> data]
         /\ http' = <<[method |-> "GET", path |-> "search/",
                       types |-> TypesOf(search_type)]>>
         /\ outcome' = SearchResults(data)
    /\ UNCHANGED calVars /\ UNCHANGED scrVars

SyncInit ==
    /\ kind = "tv"
    /\ CalendarIdle
    /\ ScrobblerIdle
    /\ SyncIdle

SyncNext == Comment \/ SearchById \/ GetSearchResults

SyncSpec == SyncInit /\ [][SyncNext]_vars

(***************************************************************************)
(* The claims.                                                             *)
(***************************************************************************)
Built == build_pc = "done"

\* C1 (as claimed): after a TV build, every show kept in the calendar has
\* exactly one season, and that season holds exactly one episode, the episode
\* of the show's response row.
C1_KeptShowHasTheRowsEpisode ==
    (Built /\ kind = "tv") =>
        \A i \in 1..Len(calendar) :
            /\ Len(calendar[i].seasons) = 1
            /\ Len(calendar[i].seasons[1].episodes) = 1
            /\ calendar[i].seasons[1].episodes[1].row = calendar[i].row

\* C2 (as claimed): of N rows walked, the M rows whose episode season matches
\* no season of the show are absent: the calendar has N - M entries.
C2_UnmatchedRowsAreDropped ==
    (Built /\ kind = "tv") => Len(calendar) = rows - unmatched

DateKey(x) == IF kind = "tv" THEN AirsAtKey(x) ELSE x.released

\* C3: a built calendar is ascending by its date key (airs_at of the first
\* episode of the kept season, released for movies), and in a TV calendar two
\* shows with equal airs_at keep the order of their response rows.
C3_SortedAscendingAndStable ==
    Built =>
        \A i, j \in 1..Len(calendar) :
            i < j =>
                /\ DateKey(calendar[i]) <= DateKey(calendar[j])
                /\ (kind = "tv" /\ DateKey(calendar[i]) = DateKey(calendar[j]))
                       => calendar[i].row < calendar[j].row

\* A built TV calendar of three shows, two of them with equal airs_at, where
\* the sort moved a later row before an earlier one.
C3_Witness ==
    /\ Built /\ kind = "tv" /\ Len(calendar) = 3
    /\ \E i, j \in 1..3 : i < j /\ AirsAtKey(calendar[i]) = AirsAtKey(calendar[j])
    /\ \E i, j \in 1..3 : i < j /\ calendar[i].row > calendar[j].row

\* C4: finish() (called directly or by __exit__) sets progress to 100 when it
\* was below 80 and leaves it otherwise, then issues exactly one request,
\* scrobble/stop, carrying the resulting progress.
C4_FinishClampsThenStops ==
    [][op' \in {"finish", "exit"} =>
         /\ progress' = (IF progress < 80 THEN 100 ELSE progress)
         /\ requests' = Append(requests, [uri |-> "scrobble/stop", progress |-> progress'])]_vars

\* finish() has just run on a Scrobbler whose last request before it carried
\* progress 50: the stop request carries 100.
C4_Witness ==
    /\ op = "finish" /\ progress = 100 /\ Len(requests) >= 2
    /\ requests[Len(requests) - 1].progress = 50
    /\ requests[Len(requests)] = [uri |-> "scrobble/stop", progress |-> 100]

\* C5: entering the scope issues scrobble/start; leaving it runs finish()
\* (the clamp, then one scrobble/stop) whether or not the body raised, does
\* nothing else, and an exception of the body still propagates.
C5_ScopeStartsAndAlwaysFinishes ==
    [][/\ (scope = "out" /\ scope' = "in") =>
             requests' = Append(requests, [uri |-> "scrobble/start", progress |-> progress])
       /\ (scope = "in" /\ scope' # "in") =>
             /\ progress' = (IF progress < 80 THEN 100 ELSE progress)
             /\ requests' = Append(requests, [uri |-> "scrobble/stop", progress |-> progress'])
             /\ propagated' = raised'
             /\ <<alive, initial>>' = <<alive, initial>>]_vars

\* The scope was left by an exception: it propagated, after a start and a
\* final stop.
C5_Witness ==
    /\ scope = "left" /\ raised /\ propagated
    /\ requests[Len(requests)].uri = "scrobble/stop"
    /\ \E i \in 1..(Len(requests) - 1) : requests[i].uri = "scrobble/start"

ClaimedIdTypes ==
    {"trakt-movie", "trakt-show", "trakt-episode", "imdb", "tmdb", "tvdb", "tvrage"}

\* C6: search_by_id with an id_type outside the seven listed raises
\* ValueError and issues no request; with one inside, it raises no such error
\* and issues its request.
C6_InvalidIdTypeRaisesBeforeRequest ==
    call.fn = "search_by_id" =>
        /\ call.id_type \notin ClaimedIdTypes => (outcome = "ValueError" /\ http = <<>>)
        /\ call.id_type \in ClaimedIdTypes => (outcome # "ValueError" /\ Len(http) = 1)

\* search_by_id(query, id_type='bogus') raised and sent nothing.
C6_Witness ==
    /\ call.fn = "search_by_id" /\ call.id_type = "bogus"
    /\ outcome = "ValueError" /\ http = <<>>

PrecededByStart ==
    \A i \in 1..Len(requests) :
        requests[i].uri \in {"scrobble/pause", "scrobble/stop"} =>
            \E j \in 1..(i - 1) : requests[j].uri = "scrobble/start"

\* C7 (as claimed): every scrobble/pause or scrobble/stop request is preceded
\* by a scrobble/start request of the same Scrobbler.
C7_PauseAndStopFollowAStart == PrecededByStart

\* C7 (amended): for a Scrobbler constructed with progress > 0, every
\* scrobble/pause or scrobble/stop request is preceded by a scrobble/start.
C7_StartedAtConstruction == initial > 0 => PrecededByStart

\* A Scrobbler constructed with progress > 0 was paused.
C7_Witness ==
    /\ initial > 0
    /\ \E i \in 1..Len(requests) : requests[i].uri = "scrobble/pause"

ProgressWithinRange ==
    /\ progress \in 0..100
    /\ \A i \in 1..Len(requests) : requests[i].progress \in 0..100

\* C8 (as claimed): whatever progress values were passed, the stored progress
\* and the progress of every request sent lie within 0..100.
C8_ProgressAlwaysWithinRange == ProgressWithinRange

\* C8 (amended): as long as every progress passed to the constructor and to
\* update lay within 0..100, the stored progress and the progress of every
\* request sent lie within 0..100.
C8_ProgressWithinRangeOfArguments == in_range => ProgressWithinRange

\* update(80) ran on a Scrobbler constructed with 50 and finished once.
C8_Witness ==
    /\ in_range /\ initial = 50 /\ op = "update" /\ progress = 80
    /\ \E i \in 1..Len(requests) : requests[i] = [uri |-> "scrobble/stop", progress |-> 100]

\* C9: the payload posted to 'comments' has review = TRUE whenever the body
\* is longer than 200, and the passed review flag otherwise.
C9_LongCommentIsAReview ==
    call.fn = "comment" =>
        /\ Len(http) = 1 /\ http[1].path = "comments"
        /\ call.len > 200 => http[1].review = TRUE
        /\ call.len <= 200 => http[1].review = call.review

\* A 201-character comment passed with review=False was posted as a review.
C9_Witness ==
    /\ call.fn = "comment" /\ call.len = 201 /\ call.review = FALSE
    /\ http[1].review = TRUE

\* C10: get_search_results returns one SearchResult per response row, in
\* response order, with the row's type and score; a row of unrecognized type
\* still has its SearchResult, with no media.
C10_OneResultPerRow ==
    call.fn = "get_search_results" =>
        /\ Len(outcome) = Len(call.data)
        /\ \A i \in 1..Len(call.data) :
             /\ outcome[i].type = call.data[i].type
             /\ outcome[i].score = call.data[i].score
             /\ call.data[i].type \notin {"movie", "show", "episode", "person"}
                    => outcome[i].media = NoMedia

\* Three rows, the middle one of an unrecognized type between two movies of
\* different scores: three results, the middle one with no media.
C10_Witness ==
    /\ call.fn = "get_search_results" /\ Len(call.data) = 3
    /\ call.data[2].type = "list" /\ call.data[1].type = "movie"
    /\ call.data[1].score # call.data[3].score
    /\ Len(outcome) = 3 /\ outcome[2].media = NoMedia /\ outcome[1].media # NoMedia

====
